---- MODULE Spec2Model ----
(***************************************************************************)
(* Model of backend/server.js: an Express service over three Mongoose      *)
(* collections (Series, Season, Episode).  The state is the content of the *)
(* three collections plus, per client, the position of the request handler *)
(* that client is running.  Every `await` on a store call is one atomic    *)
(* step; a handler whose code has several awaits is several steps.         *)
(***************************************************************************)
EXTENDS Integers, Sequences, FiniteSets, TLC

(***************************************************************************)
(* Bounds of the model and the small sets the request inputs come from.    *)
(***************************************************************************)
MaxSeries == 2
MaxSeasons == 2
MaxEpisodes == 2

Clients == {"c1", "c2"}
Names == {"a", "b"}
Thumbs == {"t1", "t2"}
SeasonNums == {1, 2}

\* req.params.seasonNumber as the router hands it to the POST episode
\* handlers: a string.
SeasonParams == {"1", "02"}
EpisodeNums == {1, 2}

VARIABLES Series, Season, Episode, req

vars == <<Series, Season, Episode, req>>

(***************************************************************************)
(* Schemas.  A document is a function from the schema's paths to values; a *)
(* request body is a function from whatever keys the client sent.          *)
(***************************************************************************)
seriesSchema ==
    [paths |-> {"name", "thumbnail", "description", "type"},
     required |-> {"name", "thumbnail"},
     numbers |-> {},
     defaults |-> [description |-> "", type |-> "series"]]

seasonSchema ==
    [paths |-> {"seriesName", "seasonNumber", "title", "description", "thumbnail"},
     required |-> {"seriesName", "seasonNumber", "title"},
     numbers |-> {"seasonNumber"},
     defaults |-> [description |-> "", thumbnail |-> ""]]

episodeSchema ==
    [paths |-> {"seriesName", "seasonNumber", "episodeNumber", "title",
                "description", "streamingUrl", "thumbnail", "duration", "airDate"},
     required |-> {"seriesName", "seasonNumber", "episodeNumber", "title",
                   "streamingUrl"},
     numbers |-> {"seasonNumber", "episodeNumber"},
     defaults |-> [description |-> "", thumbnail |-> "", duration |-> "",
                   airDate |-> "null"]]

\* The required validator of a path: the value is there and, for a String
\* path, is not the empty string.
Filled(schema, body, p) ==
    p \in DOMAIN body /\ (p \notin schema.numbers => body[p] # "")

\* new Model(body): strict schema casting keeps the schema's paths only and
\* fills the defaults of the paths the body leaves out.
NewDoc(schema, body) ==
    [p \in ((DOMAIN body) \cap schema.paths) \cup (DOMAIN schema.defaults) |->
        IF p \in DOMAIN body THEN body[p] ELSE schema.defaults[p]]

\* doc.validate() as save() and insertMany() run it.
ValidDoc(schema, body) == \A p \in schema.required : Filled(schema, body, p)

\* parseInt(req.params.seasonNumber), on the path segments of the model.
ParseInt(str) == CASE str = "1" -> 1 [] str \in {"2", "02"} -> 2

MutSpreadBodyWins(body, over) ==
    [p \in (DOMAIN body) \cup (DOMAIN over) |->
        IF p \in DOMAIN body THEN body[p] ELSE over[p]]

\* { ...body, k1: v1 } of the POST handlers: the path's values override the body's.
Spread(body, over) ==
    [p \in (DOMAIN body) \cup (DOMAIN over) |->
        IF p \in DOMAIN over THEN over[p] ELSE body[p]]

(***************************************************************************)
(* Store calls.  A collection is the sequence of its documents in natural  *)
(* (insertion) order; a filter is a function from paths to wanted values.  *)
(***************************************************************************)
Matches(doc, filter) == \A p \in DOMAIN filter : doc[p] = filter[p]

MatchingIdx(coll, filter) == {i \in 1..Len(coll) : Matches(coll[i], filter)}

Min(S) == CHOOSE x \in S : \A y \in S : x <= y

\* Index of the document findOne / findOneAndUpdate / findOneAndDelete pick:
\* the first match in natural order, 0 when nothing matches.
MutFirstIdxAny(coll, filter) == IF coll = <<>> THEN 0 ELSE 1

FirstIdx(coll, filter) ==
    IF MatchingIdx(coll, filter) = {} THEN 0 ELSE Min(MatchingIdx(coll, filter))

\* Model.findOne(filter): no document (null) or the one picked, as a sequence
\* of length 0 or 1.
FindOne(coll, filter) ==
    IF FirstIdx(coll, filter) = 0 THEN <<>> ELSE <<coll[FirstIdx(coll, filter)]>>

RemoveAt(coll, i) == SubSeq(coll, 1, i - 1) \o SubSeq(coll, i + 1, Len(coll))

\* Model.find(filter)
Find(coll, filter) == SelectSeq(coll, LAMBDA d : Matches(d, filter))

\* Model.deleteMany(filter): what is left.
MutDeleteManyFirstOnly(coll, filter) ==
    IF FirstIdx(coll, filter) = 0 THEN coll ELSE RemoveAt(coll, FirstIdx(coll, filter))

DeleteMany(coll, filter) == SelectSeq(coll, LAMBDA d : ~Matches(d, filter))

\* Model.countDocuments(filter)
CountDocuments(coll, filter) == Cardinality(MatchingIdx(coll, filter))

\* The update findOneAndUpdate(filter, body, { runValidators: true }) applies:
\* a body without update operators is a $set of the schema paths it names.
SetPaths(schema, body) == (DOMAIN body) \cap schema.paths

\* Update validators run on the paths the update sets.
ValidUpdate(schema, body) ==
    \A p \in SetPaths(schema, body) \cap schema.required : Filled(schema, body, p)

MutApplyUpdateReplace(doc, schema, body) == NewDoc(schema, body)

ApplyUpdate(doc, schema, body) ==
    [p \in DOMAIN doc |-> IF p \in SetPaths(schema, body) THEN body[p] ELSE doc[p]]

ReplaceAt(coll, i, doc) == [coll EXCEPT ![i] = doc]

(***************************************************************************)
(* Requests.  req[c] is the handler client c is running: idle, between two *)
(* awaits (pc names the store call that comes next), or about to send its  *)
(* response (pc = "respond", with the status and the JSON body).  pre is   *)
(* the content of the store when the handler issued its first call.        *)
(***************************************************************************)
Idle == [pc |-> "idle"]

Store == [Series |-> Series, Season |-> Season, Episode |-> Episode]

Go(c, r) == req' = [req EXCEPT ![c] = r]

\* res.status(status).json(out) is what the handler does next; sent counts the
\* responses the handler has sent for its request.
Reply(r, status, out) ==
    [k \in (DOMAIN r) \cup {"pc", "status", "out", "sent"} |->
        IF k = "pc" THEN "respond"
        ELSE IF k = "status" THEN status
        ELSE IF k = "out" THEN out
        ELSE IF k = "sent" THEN (IF "sent" \in DOMAIN r THEN r.sent + 1 ELSE 1)
        ELSE r[k]]

\* The handler moves on to its next await.
Await(r, pc) == [r EXCEPT !.pc = pc]

Call(op, params) ==
    [k \in (DOMAIN params) \cup {"pc", "op", "pre", "calls"} |->
        IF k = "pc" THEN "start"
        ELSE IF k = "op" THEN op
        ELSE IF k = "pre" THEN Store
        ELSE IF k = "calls" THEN <<>>
        ELSE params[k]]

\* { ...doc.toObject(), key: value }; also a handler's local: const key = value.
With(doc, key, value) ==
    [p \in (DOMAIN doc) \cup {key} |-> IF p = key THEN value ELSE doc[p]]

\* The cascade handlers keep, in calls, the store calls they have awaited so
\* far, in order, and in deleted what findOneAndDelete returned.
Issued(r, call) == [r EXCEPT !.calls = Append(@, call)]

Responding(c, op) == req[c].pc = "respond" /\ req[c].op = op

(***************************************************************************)
(* Series endpoints.                                                       *)
(***************************************************************************)
\* GET /api/series/:seriesName
GetSeries(c, seriesName) ==
    /\ req[c].pc = "idle"
    /\ LET r == Call("GetSeries", [seriesName |-> seriesName])
           found == FindOne(Series, [name |-> seriesName])
       IN  IF found = <<>>
           THEN Go(c, Reply(r, 404, "Series not found."))
           ELSE Go(c, Reply(r, 200, found[1]))
    /\ UNCHANGED <<Series, Season, Episode>>

\* POST /api/series
PostSeries(c, body) ==
    /\ req[c].pc = "idle"
    /\ LET r == Call("PostSeries", [body |-> body])
       IN  IF ValidDoc(seriesSchema, body)
           THEN /\ Len(Series) < MaxSeries
                /\ Series' = Append(Series, NewDoc(seriesSchema, body))
                /\ Go(c, Reply(r, 201, NewDoc(seriesSchema, body)))
           ELSE /\ Series' = Series
                /\ Go(c, Reply(r, 400, "Failed to add series."))
    /\ UNCHANGED <<Season, Episode>>

MutPutSeriesCascade(c, seriesName, body) ==
    /\ req[c].pc = "idle"
    /\ LET r == Call("PutSeries", [seriesName |-> seriesName, body |-> body])
           i == FirstIdx(Series, [name |-> seriesName])
           renames == ValidUpdate(seriesSchema, body) /\ i # 0 /\ "name" \in DOMAIN body
           Renamed(coll) ==
               [k \in 1..Len(coll) |->
                   IF renames /\ coll[k].seriesName = seriesName
                   THEN [coll[k] EXCEPT !.seriesName = body.name]
                   ELSE coll[k]]
       IN  /\ Season' = Renamed(Season)
           /\ Episode' = Renamed(Episode)
           /\ IF ~ValidUpdate(seriesSchema, body)
              THEN /\ Series' = Series
                   /\ Go(c, Reply(r, 400, "Failed to update series."))
              ELSE IF i = 0
              THEN /\ Series' = Series
                   /\ Go(c, Reply(r, 404, "Series not found."))
              ELSE /\ Series' = ReplaceAt(Series, i, ApplyUpdate(Series[i], seriesSchema, body))
                   /\ Go(c, Reply(r, 200, ApplyUpdate(Series[i], seriesSchema, body)))

\* PUT /api/series/:seriesName
PutSeries(c, seriesName, body) ==
    /\ req[c].pc = "idle"
    /\ LET r == Call("PutSeries", [seriesName |-> seriesName, body |-> body])
           i == FirstIdx(Series, [name |-> seriesName])
       IN  IF ~ValidUpdate(seriesSchema, body)
           THEN /\ Series' = Series
                /\ Go(c, Reply(r, 400, "Failed to update series."))
           ELSE IF i = 0
           THEN /\ Series' = Series
                /\ Go(c, Reply(r, 404, "Series not found."))
           ELSE /\ Series' = ReplaceAt(Series, i, ApplyUpdate(Series[i], seriesSchema, body))
                /\ Go(c, Reply(r, 200, ApplyUpdate(Series[i], seriesSchema, body)))
    /\ UNCHANGED <<Season, Episode>>

MutDeleteSeriesNoReturn(c, seriesName) ==
    /\ req[c].pc = "idle"
    /\ LET r == With(Issued(Call("DeleteSeries", [seriesName |-> seriesName]),
                            "Series.findOneAndDelete"),
                     "deleted", FindOne(Series, [name |-> seriesName]))
           i == FirstIdx(Series, [name |-> seriesName])
       IN  /\ Series' = IF i = 0 THEN Series ELSE RemoveAt(Series, i)
           /\ Go(c, Await(r, "Season.deleteMany"))
    /\ UNCHANGED <<Season, Episode>>

MutDeleteSeriesEveryRecord(c, seriesName) ==
    /\ req[c].pc = "idle"
    /\ LET r == With(Issued(Call("DeleteSeries", [seriesName |-> seriesName]),
                            "Series.findOneAndDelete"),
                     "deleted", FindOne(Series, [name |-> seriesName]))
           i == FirstIdx(Series, [name |-> seriesName])
       IN  IF i = 0
           THEN /\ Series' = Series
                /\ Go(c, Reply(r, 404, "Series not found."))
           ELSE /\ Series' = DeleteMany(Series, [name |-> seriesName])
                /\ Go(c, Await(r, "Season.deleteMany"))
    /\ UNCHANGED <<Season, Episode>>

MutDeleteSeriesFindOnly(c, seriesName) ==
    /\ req[c].pc = "idle"
    /\ LET r == With(Issued(Call("DeleteSeries", [seriesName |-> seriesName]),
                            "Series.findOneAndDelete"),
                     "deleted", FindOne(Series, [name |-> seriesName]))
           i == FirstIdx(Series, [name |-> seriesName])
       IN  IF i = 0
           THEN Go(c, Reply(r, 404, "Series not found."))
           ELSE Go(c, Await(r, "Season.deleteMany"))
    /\ UNCHANGED <<Series, Season, Episode>>

\* DELETE /api/series/:seriesName, up to its first await: findOneAndDelete.
DeleteSeries(c, seriesName) ==
    /\ req[c].pc = "idle"
    /\ LET r == With(Issued(Call("DeleteSeries", [seriesName |-> seriesName]),
                            "Series.findOneAndDelete"),
                     "deleted", FindOne(Series, [name |-> seriesName]))
           i == FirstIdx(Series, [name |-> seriesName])
       IN  IF i = 0
           THEN /\ Series' = Series
                /\ Go(c, Reply(r, 404, "Series not found."))
           ELSE /\ Series' = RemoveAt(Series, i)
                /\ Go(c, Await(r, "Season.deleteMany"))
    /\ UNCHANGED <<Season, Episode>>

MutDeleteSeriesSeasonsNotAwaited(c) ==
    /\ req[c].pc = "Season.deleteMany"
    /\ req[c].op = "DeleteSeries"
    /\ Go(c, Await(Issued(req[c], "Season.deleteMany"), "Episode.deleteMany"))
    /\ UNCHANGED <<Series, Season, Episode>>

\* ... its second await: Season.deleteMany.
DeleteSeriesSeasons(c) ==
    /\ req[c].pc = "Season.deleteMany"
    /\ req[c].op = "DeleteSeries"
    /\ Season' = DeleteMany(Season, [seriesName |-> req[c].seriesName])
    /\ Go(c, Await(Issued(req[c], "Season.deleteMany"), "Episode.deleteMany"))
    /\ UNCHANGED <<Series, Episode>>

\* ... its third await, Episode.deleteMany, and the success message.
DeleteSeriesEpisodes(c) ==
    /\ req[c].pc = "Episode.deleteMany"
    /\ req[c].op = "DeleteSeries"
    /\ Episode' = DeleteMany(Episode, [seriesName |-> req[c].seriesName])
    /\ Go(c, Reply(Issued(req[c], "Episode.deleteMany"), 200,
                   "Series and all related content deleted successfully."))
    /\ UNCHANGED <<Series, Season>>

\* The response is sent; the client may send its next request.
Respond(c) ==
    /\ req[c].pc = "respond"
    /\ Go(c, Idle)
    /\ UNCHANGED <<Series, Season, Episode>>

(***************************************************************************)
(* Season endpoints.                                                       *)
(***************************************************************************)
\* query.sort({ p1: 1, p2: 1 }): the documents in ascending order of the
\* listed paths, ties in natural order.  Before says x sorts strictly before y.
Before(x, y, paths) ==
    \E k \in 1..Len(paths) :
        /\ x[paths[k]] < y[paths[k]]
        /\ \A j \in 1..(k - 1) : x[paths[j]] = y[paths[j]]

Rank(coll, i, paths) ==
    1 + Cardinality({j \in 1..Len(coll) :
            \/ Before(coll[j], coll[i], paths)
            \/ (~Before(coll[i], coll[j], paths) /\ j < i)})

Sort(coll, paths) ==
    [k \in 1..Len(coll) |-> coll[CHOOSE i \in 1..Len(coll) : Rank(coll, i, paths) = k]]

\* .sort({ seasonNumber: 1 })
BySeasonNumber == <<"seasonNumber">>

\* .sort({ seasonNumber: 1, episodeNumber: 1 })
BySeasonEpisode == <<"seasonNumber", "episodeNumber">>

\* GET /api/series/:seriesName/seasons
GetSeasons(c, seriesName) ==
    /\ req[c].pc = "idle"
    /\ Go(c, Reply(Call("GetSeasons", [seriesName |-> seriesName]), 200,
                   Sort(Find(Season, [seriesName |-> seriesName]), BySeasonNumber)))
    /\ UNCHANGED <<Series, Season, Episode>>

MutPostSeasonChecksParent(c, seriesName, body) ==
    /\ req[c].pc = "idle"
    /\ LET r == Call("PostSeason", [seriesName |-> seriesName, body |-> body])
           seasonData == Spread(body, [seriesName |-> seriesName])
       IN  IF FindOne(Series, [name |-> seriesName]) = <<>>
           THEN /\ Season' = Season
                /\ Go(c, Reply(r, 404, "Series not found."))
           ELSE IF ValidDoc(seasonSchema, seasonData)
           THEN /\ Len(Season) < MaxSeasons
                /\ Season' = Append(Season, NewDoc(seasonSchema, seasonData))
                /\ Go(c, Reply(r, 201, NewDoc(seasonSchema, seasonData)))
           ELSE /\ Season' = Season
                /\ Go(c, Reply(r, 400, "Failed to add season."))
    /\ UNCHANGED <<Series, Episode>>

\* POST /api/series/:seriesName/seasons
PostSeason(c, seriesName, body) ==
    /\ req[c].pc = "idle"
    /\ LET r == Call("PostSeason", [seriesName |-> seriesName, body |-> body])
           seasonData == Spread(body, [seriesName |-> seriesName])
       IN  IF ValidDoc(seasonSchema, seasonData)
           THEN /\ Len(Season) < MaxSeasons
                /\ Season' = Append(Season, NewDoc(seasonSchema, seasonData))
                /\ Go(c, Reply(r, 201, NewDoc(seasonSchema, seasonData)))
           ELSE /\ Season' = Season
                /\ Go(c, Reply(r, 400, "Failed to add season."))
    /\ UNCHANGED <<Series, Episode>>

\* PUT /api/series/:seriesName/seasons/:seasonNumber
PutSeason(c, seriesName, seasonNumber, body) ==
    /\ req[c].pc = "idle"
    /\ LET r == Call("PutSeason", [seriesName |-> seriesName,
                                   seasonNumber |-> seasonNumber, body |-> body])
           i == FirstIdx(Season, [seriesName |-> seriesName, seasonNumber |-> seasonNumber])
       IN  IF ~ValidUpdate(seasonSchema, body)
           THEN /\ Season' = Season
                /\ Go(c, Reply(r, 400, "Failed to update season."))
           ELSE IF i = 0
           THEN /\ Season' = Season
                /\ Go(c, Reply(r, 404, "Season not found."))
           ELSE /\ Season' = ReplaceAt(Season, i, ApplyUpdate(Season[i], seasonSchema, body))
                /\ Go(c, Reply(r, 200, ApplyUpdate(Season[i], seasonSchema, body)))
    /\ UNCHANGED <<Series, Episode>>

MutDeleteSeasonAtomic(c, seriesName, seasonNumber) ==
    /\ req[c].pc = "idle"
    /\ LET r == With(Issued(Call("DeleteSeason", [seriesName |-> seriesName,
                                                  seasonNumber |-> seasonNumber]),
                            "Season.findOneAndDelete"),
                     "deleted", FindOne(Season, [seriesName |-> seriesName,
                                                 seasonNumber |-> seasonNumber]))
           i == FirstIdx(Season, [seriesName |-> seriesName, seasonNumber |-> seasonNumber])
       IN  IF i = 0
           THEN /\ UNCHANGED <<Season, Episode>>
                /\ Go(c, Reply(r, 404, "Season not found."))
           ELSE /\ Season' = RemoveAt(Season, i)
                /\ Episode' = DeleteMany(Episode, [seriesName |-> seriesName,
                                                   seasonNumber |-> seasonNumber])
                /\ Go(c, Await(r, "Episode.deleteMany"))
    /\ UNCHANGED Series

\* DELETE /api/series/:seriesName/seasons/:seasonNumber, up to its first
\* await: findOneAndDelete.
DeleteSeason(c, seriesName, seasonNumber) ==
    /\ req[c].pc = "idle"
    /\ LET r == With(Issued(Call("DeleteSeason", [seriesName |-> seriesName,
                                                  seasonNumber |-> seasonNumber]),
                            "Season.findOneAndDelete"),
                     "deleted", FindOne(Season, [seriesName |-> seriesName,
                                                 seasonNumber |-> seasonNumber]))
           i == FirstIdx(Season, [seriesName |-> seriesName, seasonNumber |-> seasonNumber])
       IN  IF i = 0
           THEN /\ Season' = Season
                /\ Go(c, Reply(r, 404, "Season not found."))
           ELSE /\ Season' = RemoveAt(Season, i)
                /\ Go(c, Await(r, "Episode.deleteMany"))
    /\ UNCHANGED <<Series, Episode>>

MutDeleteSeasonEpisodesOfSeries(c) ==
    /\ req[c].pc = "Episode.deleteMany"
    /\ req[c].op = "DeleteSeason"
    /\ Episode' = DeleteMany(Episode, [seriesName |-> req[c].seriesName])
    /\ Go(c, Reply(Issued(req[c], "Episode.deleteMany"), 200,
                   "Season and all its episodes deleted successfully."))
    /\ UNCHANGED <<Series, Season>>

\* ... its second await, Episode.deleteMany, and the success message.
DeleteSeasonEpisodes(c) ==
    /\ req[c].pc = "Episode.deleteMany"
    /\ req[c].op = "DeleteSeason"
    /\ Episode' = DeleteMany(Episode, [seriesName |-> req[c].seriesName,
                                       seasonNumber |-> req[c].seasonNumber])
    /\ Go(c, Reply(Issued(req[c], "Episode.deleteMany"), 200,
                   "Season and all its episodes deleted successfully."))
    /\ UNCHANGED <<Series, Season>>

(***************************************************************************)
(* Episode endpoints.                                                      *)
(***************************************************************************)
\* GET /api/series/:seriesName/episodes
GetEpisodes(c, seriesName) ==
    /\ req[c].pc = "idle"
    /\ Go(c, Reply(Call("GetEpisodes", [seriesName |-> seriesName]), 200,
                   Sort(Find(Episode, [seriesName |-> seriesName]), BySeasonEpisode)))
    /\ UNCHANGED <<Series, Season, Episode>>

\* POST /api/series/:seriesName/seasons/:seasonNumber/episodes
PostEpisode(c, seriesName, seasonNumber, body) ==
    /\ req[c].pc = "idle"
    /\ LET r == Call("PostEpisode", [seriesName |-> seriesName,
                                     seasonNumber |-> ParseInt(seasonNumber),
                                     params |-> [seriesName |-> seriesName,
                                                 seasonNumber |-> seasonNumber],
                                     body |-> body])
           episodeData == Spread(body, [seriesName |-> seriesName,
                                        seasonNumber |-> ParseInt(seasonNumber)])
       IN  IF ValidDoc(episodeSchema, episodeData)
           THEN /\ Len(Episode) < MaxEpisodes
                /\ Episode' = Append(Episode, NewDoc(episodeSchema, episodeData))
                /\ Go(c, Reply(r, 201, NewDoc(episodeSchema, episodeData)))
           ELSE /\ Episode' = Episode
                /\ Go(c, Reply(r, 400, "Failed to add episode."))
    /\ UNCHANGED <<Series, Season>>

\* PUT /api/series/:seriesName/seasons/:seasonNumber/episodes/:episodeNumber
PutEpisode(c, seriesName, seasonNumber, episodeNumber, body) ==
    /\ req[c].pc = "idle"
    /\ LET r == Call("PutEpisode", [seriesName |-> seriesName, seasonNumber |-> seasonNumber,
                                    episodeNumber |-> episodeNumber, body |-> body])
           i == FirstIdx(Episode, [seriesName |-> seriesName, seasonNumber |-> seasonNumber,
                                   episodeNumber |-> episodeNumber])
       IN  IF ~ValidUpdate(episodeSchema, body)
           THEN /\ Episode' = Episode
                /\ Go(c, Reply(r, 400, "Failed to update episode."))
           ELSE IF i = 0
           THEN /\ Episode' = Episode
                /\ Go(c, Reply(r, 404, "Episode not found."))
           ELSE /\ Episode' = ReplaceAt(Episode, i, ApplyUpdate(Episode[i], episodeSchema, body))
                /\ Go(c, Reply(r, 200, ApplyUpdate(Episode[i], episodeSchema, body)))
    /\ UNCHANGED <<Series, Season>>

\* DELETE /api/series/:seriesName/seasons/:seasonNumber/episodes/:episodeNumber
DeleteEpisode(c, seriesName, seasonNumber, episodeNumber) ==
    /\ req[c].pc = "idle"
    /\ LET r == Call("DeleteEpisode", [seriesName |-> seriesName, seasonNumber |-> seasonNumber,
                                       episodeNumber |-> episodeNumber])
           i == FirstIdx(Episode, [seriesName |-> seriesName, seasonNumber |-> seasonNumber,
                                   episodeNumber |-> episodeNumber])
       IN  IF i = 0
           THEN /\ Episode' = Episode
                /\ Go(c, Reply(r, 404, "Episode not found."))
           ELSE /\ Episode' = RemoveAt(Episode, i)
                /\ Go(c, Reply(r, 200, "Episode deleted successfully."))
    /\ UNCHANGED <<Series, Season>>

(***************************************************************************)
(* Combined data endpoints.                                                *)
(***************************************************************************)
\* seasons.map(season => ({ ...season.toObject(),
\*     episodes: episodes.filter(ep => ep.seasonNumber === season.seasonNumber) }))
MutSeasonsWithEpisodesAll(seasonList, episodeList) ==
    [i \in 1..Len(seasonList) |-> With(seasonList[i], "episodes", episodeList)]

SeasonsWithEpisodes(seasonList, episodeList) ==
    [i \in 1..Len(seasonList) |->
        With(seasonList[i], "episodes",
             SelectSeq(episodeList,
                       LAMBDA ep : ep.seasonNumber = seasonList[i].seasonNumber))]

MutGetCompleteNoReturn(c, seriesName) ==
    /\ req[c].pc = "idle"
    /\ LET r == Call("GetComplete", [seriesName |-> seriesName])
           found == FindOne(Series, [name |-> seriesName])
       IN  Go(c, Await(With(r, "series",
                            IF found = <<>> THEN [name |-> seriesName] ELSE found[1]),
                       "Season.find"))
    /\ UNCHANGED <<Series, Season, Episode>>

\* GET /api/series/:seriesName/complete, up to its first await: Series.findOne.
GetComplete(c, seriesName) ==
    /\ req[c].pc = "idle"
    /\ LET r == Call("GetComplete", [seriesName |-> seriesName])
           found == FindOne(Series, [name |-> seriesName])
       IN  IF found = <<>>
           THEN Go(c, Reply(r, 404, "Series not found."))
           ELSE Go(c, Await(With(r, "series", found[1]), "Season.find"))
    /\ UNCHANGED <<Series, Season, Episode>>

\* ... its second await: Season.find(...).sort(...).
GetCompleteSeasons(c) ==
    /\ req[c].pc = "Season.find"
    /\ req[c].op = "GetComplete"
    /\ Go(c, Await(With(req[c], "seasons",
                        Sort(Find(Season, [seriesName |-> req[c].seriesName]),
                             BySeasonNumber)),
                   "Episode.find"))
    /\ UNCHANGED <<Series, Season, Episode>>

\* ... its third await, Episode.find(...).sort(...), the grouping and the response.
GetCompleteEpisodes(c) ==
    /\ req[c].pc = "Episode.find"
    /\ req[c].op = "GetComplete"
    /\ LET found == Sort(Find(Episode, [seriesName |-> req[c].seriesName]),
                         BySeasonEpisode)
       IN  Go(c, Reply(req[c], 200,
                       With(req[c].series, "seasons",
                            SeasonsWithEpisodes(req[c].seasons, found))))
    /\ UNCHANGED <<Series, Season, Episode>>

(***************************************************************************)
(* Utility endpoints.                                                      *)
(***************************************************************************)
\* The ascending sequence of a finite set of numbers.
Ascending(S) ==
    [k \in 1..Cardinality(S) |->
        CHOOSE x \in S : Cardinality({y \in S : y < x}) = k - 1]

\* Episode.aggregate([{ $match }, { $group: { _id: '$seasonNumber', count } },
\* { $sort: { _id: 1 } }]) mapped to { season, episodes }.
MutEpisodesPerSeasonTotal(coll, seriesName) ==
    LET ids == Ascending({d.seasonNumber : d \in
                            {coll[i] : i \in MatchingIdx(coll, [seriesName |-> seriesName])}})
    IN  [k \in 1..Len(ids) |->
            [season |-> ids[k],
             episodes |-> CountDocuments(coll, [seriesName |-> seriesName])]]

EpisodesPerSeason(coll, seriesName) ==
    LET ids == Ascending({d.seasonNumber : d \in
                            {coll[i] : i \in MatchingIdx(coll, [seriesName |-> seriesName])}})
    IN  [k \in 1..Len(ids) |->
            [season |-> ids[k],
             episodes |-> CountDocuments(coll, [seriesName |-> seriesName,
                                                seasonNumber |-> ids[k]])]]

\* GET /api/series/:seriesName/stats, up to its first await: Season.countDocuments.
GetStats(c, seriesName) ==
    /\ req[c].pc = "idle"
    /\ Go(c, Await(With(Call("GetStats", [seriesName |-> seriesName]), "seasonCount",
                        CountDocuments(Season, [seriesName |-> seriesName])),
                   "Episode.countDocuments"))
    /\ UNCHANGED <<Series, Season, Episode>>

MutGetStatsEpisodeCountAll(c) ==
    /\ req[c].pc = "Episode.countDocuments"
    /\ req[c].op = "GetStats"
    /\ Go(c, Await(With(With(req[c], "episodeCount", Len(Episode)), "atCount", Episode),
                   "Episode.aggregate"))
    /\ UNCHANGED <<Series, Season, Episode>>

\* ... its second await: Episode.countDocuments.  atCount is the Episode
\* collection the count was taken of.
GetStatsEpisodeCount(c) ==
    /\ req[c].pc = "Episode.countDocuments"
    /\ req[c].op = "GetStats"
    /\ Go(c, Await(With(With(req[c], "episodeCount",
                             CountDocuments(Episode, [seriesName |-> req[c].seriesName])),
                        "atCount", Episode),
                   "Episode.aggregate"))
    /\ UNCHANGED <<Series, Season, Episode>>

\* ... its third await, Episode.aggregate, and the response.
GetStatsAggregate(c) ==
    /\ req[c].pc = "Episode.aggregate"
    /\ req[c].op = "GetStats"
    /\ Go(c, Reply(req[c], 200,
                   [seriesName |-> req[c].seriesName,
                    totalSeasons |-> req[c].seasonCount,
                    totalEpisodes |-> req[c].episodeCount,
                    episodesPerSeason |-> EpisodesPerSeason(Episode, req[c].seriesName)]))
    /\ UNCHANGED <<Series, Season, Episode>>

(***************************************************************************)
(* Bulk operations.                                                        *)
(***************************************************************************)
\* Model.insertMany(docs): every document is validated before anything is
\* sent to the store; one validation error and nothing is inserted.
MutInsertManyValidPrefix(coll, schema, docs) ==
    LET bad == {i \in 1..Len(docs) : ~ValidDoc(schema, docs[i])}
        n == IF bad = {} THEN Len(docs) ELSE Min(bad) - 1
    IN  [ok |-> bad = {},
         coll |-> coll \o [i \in 1..n |-> NewDoc(schema, docs[i])]]

InsertMany(coll, schema, docs) ==
    IF \A i \in 1..Len(docs) : ValidDoc(schema, docs[i])
    THEN [ok |-> TRUE, coll |-> coll \o [i \in 1..Len(docs) |-> NewDoc(schema, docs[i])]]
    ELSE [ok |-> FALSE, coll |-> coll]

\* POST /api/series/:seriesName/seasons/:seasonNumber/episodes/bulk
PostEpisodesBulk(c, seriesName, seasonNumber, body) ==
    /\ req[c].pc = "idle"
    /\ LET r == Call("PostEpisodesBulk", [seriesName |-> seriesName,
                                          seasonNumber |-> ParseInt(seasonNumber),
                                          params |-> [seriesName |-> seriesName,
                                                      seasonNumber |-> seasonNumber],
                                          body |-> body])
       IN  IF "episodes" \notin DOMAIN body
           THEN /\ Episode' = Episode
                /\ Go(c, Reply(r, 400, "Episodes must be an array."))
           ELSE LET episodesToInsert ==
                        [i \in 1..Len(body.episodes) |->
                            Spread(body.episodes[i], [seriesName |-> seriesName,
                                                      seasonNumber |-> ParseInt(seasonNumber)])]
                    inserted == InsertMany(Episode, episodeSchema, episodesToInsert)
                IN  /\ Len(inserted.coll) <= MaxEpisodes
                    /\ Episode' = inserted.coll
                    /\ IF inserted.ok
                       THEN Go(c, Reply(r, 201, SubSeq(inserted.coll, Len(Episode) + 1,
                                                       Len(inserted.coll))))
                       ELSE Go(c, Reply(r, 400, "Failed to add episodes."))
    /\ UNCHANGED <<Series, Season>>

(***************************************************************************)
(* The requests clients send.                                              *)
(***************************************************************************)
SeriesBodies ==
    [name : Names, thumbnail : Thumbs]
        \cup {[name |-> "a"], [thumbnail |-> "t1"],
              [name |-> "a", thumbnail |-> "t1", addedAt |-> "T"]}

SeriesUpdates ==
    {[thumbnail |-> "t2"], [name |-> "b"], [thumbnail |-> ""], [addedAt |-> "T"]}

SeasonBodies ==
    [seasonNumber : SeasonNums, title : {"S"}]
        \cup {[seasonNumber |-> 1],
              [seriesName |-> "b", seasonNumber |-> 1, title |-> "S"]}

SeasonUpdates == {[seasonNumber |-> 2], [seriesName |-> "b"], [title |-> ""]}

EpisodeBodies ==
    [episodeNumber : EpisodeNums, title : {"E"}, streamingUrl : {"u"}]
        \cup {[episodeNumber |-> 1, title |-> "E"],
              [seriesName |-> "b", seasonNumber |-> 2, episodeNumber |-> 1,
               title |-> "E", streamingUrl |-> "u"]}

EpisodeUpdates == {[episodeNumber |-> 2], [seasonNumber |-> 1], [streamingUrl |-> ""]}

Ep(n) == [episodeNumber |-> n, title |-> "E", streamingUrl |-> "u"]

BulkBodies ==
    {[episodes |-> <<>>], [episodes |-> <<Ep(2), Ep(1)>>],
     [episodes |-> <<[seriesName |-> "b", seasonNumber |-> 2, episodeNumber |-> 1,
                      title |-> "E", streamingUrl |-> "u"]>>],
     [episodes |-> <<Ep(1), [episodeNumber |-> 2, title |-> "E"]>>],
     [episodes |-> <<[episodeNumber |-> 2, title |-> "E"], Ep(1)>>],
     [data |-> <<Ep(1)>>]}

(***************************************************************************)
(* The service handling one request at a time.                             *)
(***************************************************************************)
Init ==
    /\ Series = <<>>
    /\ Season = <<>>
    /\ Episode = <<>>
    /\ req = [c \in Clients |-> Idle]

\* The first step of a handler: the request arrives and the handler runs up
\* to its first await.
Begin(c) ==
    \/ \E n \in Names : GetSeries(c, n)
    \/ \E body \in SeriesBodies : PostSeries(c, body)
    \/ \E n \in Names, body \in SeriesUpdates : PutSeries(c, n, body)
    \/ \E n \in Names : DeleteSeries(c, n)
    \/ \E n \in Names : GetSeasons(c, n)
    \/ \E n \in Names, body \in SeasonBodies : PostSeason(c, n, body)
    \/ \E n \in Names, k \in SeasonNums, body \in SeasonUpdates : PutSeason(c, n, k, body)
    \/ \E n \in Names, k \in SeasonNums : DeleteSeason(c, n, k)
    \/ \E n \in Names : GetEpisodes(c, n)
    \/ \E n \in Names, k \in SeasonParams, body \in EpisodeBodies : PostEpisode(c, n, k, body)
    \/ \E n \in Names, k \in SeasonNums, e \in EpisodeNums, body \in EpisodeUpdates :
            PutEpisode(c, n, k, e, body)
    \/ \E n \in Names, k \in SeasonNums, e \in EpisodeNums : DeleteEpisode(c, n, k, e)
    \/ \E n \in Names : GetComplete(c, n)
    \/ \E n \in Names : GetStats(c, n)
    \/ \E n \in Names, k \in SeasonParams, body \in BulkBodies :
            PostEpisodesBulk(c, n, k, body)

\* A later step of a handler: the store call it awaited returns.
Continue(c) ==
    \/ DeleteSeriesSeasons(c)
    \/ DeleteSeriesEpisodes(c)
    \/ DeleteSeasonEpisodes(c)
    \/ GetCompleteSeasons(c)
    \/ GetCompleteEpisodes(c)
    \/ GetStatsEpisodeCount(c)
    \/ GetStatsAggregate(c)
    \/ Respond(c)

\* No request is in flight.
Quiet == \A c \in Clients : req[c].pc = "idle"

Next ==
    \/ Quiet /\ Begin("c1")
    \/ Continue("c1")

Spec == Init /\ [][Next]_vars

(***************************************************************************)
(* Properties of the service handling one request at a time.               *)
(***************************************************************************)
Count(seq, d) == Cardinality({k \in 1..Len(seq) : seq[k] = d})

Range(seq) == {seq[k] : k \in 1..Len(seq)}

\* C1: once DELETE /api/series/S has answered with success, listing the
\* seasons of S and listing the episodes of S both give the empty sequence.
C1_DeleteSeriesCascades ==
    \A c \in Clients :
        (Responding(c, "DeleteSeries") /\ req[c].status = 200) =>
            /\ Sort(Find(Season, [seriesName |-> req[c].seriesName]), BySeasonNumber) = <<>>
            /\ Sort(Find(Episode, [seriesName |-> req[c].seriesName]), BySeasonEpisode) = <<>>

\* A successful delete of a series that had a season and two episodes.
C1_Witness ==
    \E c \in Clients :
        /\ Responding(c, "DeleteSeries")
        /\ req[c].status = 200
        /\ Find(req[c].pre.Season, [seriesName |-> req[c].seriesName]) # <<>>
        /\ Len(Find(req[c].pre.Episode, [seriesName |-> req[c].seriesName])) >= 2

\* C2: DELETE of a series name with no Series record answers 404 and leaves
\* the three collections as they were, orphaned children of that name
\* included; the handler issues no further store call.
C2_DeleteMissingSeries ==
    \A c \in Clients :
        (/\ req[c].pc # "idle"
         /\ req[c].op = "DeleteSeries"
         /\ \A i \in 1..Len(req[c].pre.Series) :
                req[c].pre.Series[i].name # req[c].seriesName) =>
            /\ req[c].pc = "respond"
            /\ req[c].status = 404
            /\ Store = req[c].pre

\* A 404 for a name that orphaned seasons and episodes carry.
C2_Witness ==
    \E c \in Clients :
        /\ Responding(c, "DeleteSeries")
        /\ req[c].status = 404
        /\ Find(Season, [seriesName |-> req[c].seriesName]) # <<>>
        /\ Find(Episode, [seriesName |-> req[c].seriesName]) # <<>>

\* C3: after a successful DELETE of season (seriesName, seasonNumber) no
\* episode with that key is left, the episodes with another key are the ones
\* there were before, in their order, the Series collection is unchanged and
\* the Season collection lost exactly one record, of that key.
C3_DeleteSeasonFrame ==
    \A c \in Clients :
        (Responding(c, "DeleteSeason") /\ req[c].status = 200) =>
            LET key == [seriesName |-> req[c].seriesName,
                        seasonNumber |-> req[c].seasonNumber]
            IN  /\ Find(Episode, key) = <<>>
                /\ Episode = SelectSeq(req[c].pre.Episode, LAMBDA d : ~Matches(d, key))
                /\ Series = req[c].pre.Series
                /\ \E i \in 1..Len(req[c].pre.Season) :
                        /\ Matches(req[c].pre.Season[i], key)
                        /\ Season = RemoveAt(req[c].pre.Season, i)

\* A successful season delete that removed an episode and kept an episode of
\* another season of the same series.
C3_Witness ==
    \E c \in Clients :
        /\ Responding(c, "DeleteSeason")
        /\ req[c].status = 200
        /\ Len(Episode) < Len(req[c].pre.Episode)
        /\ Find(Episode, [seriesName |-> req[c].seriesName]) # <<>>

\* An entry of a bulk body that lacks a required field the path does not supply.
Malformed(entry) == {"episodeNumber", "title", "streamingUrl"} \ (DOMAIN entry) # {}

\* C4: a bulk insert with a malformed entry answers 400 and leaves the
\* Episode collection as it was; one without answers 201 and appends every
\* entry, in order, under the path's series name and season number.
C4_BulkAllOrNothing ==
    \A c \in Clients :
        (Responding(c, "PostEpisodesBulk") /\ "episodes" \in DOMAIN req[c].body) =>
            LET batch == req[c].body.episodes
                old == req[c].pre.Episode
            IN  IF \E i \in 1..Len(batch) : Malformed(batch[i])
                THEN req[c].status = 400 /\ Episode = old
                ELSE /\ req[c].status = 201
                     /\ Len(Episode) = Len(old) + Len(batch)
                     /\ SubSeq(Episode, 1, Len(old)) = old
                     /\ \A i \in 1..Len(batch) :
                            LET d == Episode[Len(old) + i]
                            IN  /\ d.seriesName = req[c].seriesName
                                /\ d.seasonNumber = req[c].seasonNumber
                                /\ d.episodeNumber = batch[i].episodeNumber
                                /\ d.title = batch[i].title
                                /\ d.streamingUrl = batch[i].streamingUrl

\* A rejected batch whose first entry was valid and whose second was not.
C4_Witness ==
    \E c \in Clients :
        /\ Responding(c, "PostEpisodesBulk")
        /\ req[c].status = 400
        /\ "episodes" \in DOMAIN req[c].body
        /\ Len(req[c].body.episodes) = 2
        /\ ~Malformed(req[c].body.episodes[1])
        /\ Malformed(req[c].body.episodes[2])

\* Every entry of a two-entry batch persisted.
C4_WitnessAccepted ==
    \E c \in Clients :
        /\ Responding(c, "PostEpisodesBulk")
        /\ req[c].status = 201
        /\ Len(Episode) = Len(req[c].pre.Episode) + 2

\* C5: in the complete-series view the seasons are the stored seasons of the
\* series in ascending seasonNumber, and the episodes nested under a season
\* are exactly the stored episodes of the series with that seasonNumber, in
\* ascending episodeNumber.
C5_CompleteGroupsBySeason ==
    \A c \in Clients :
        (Responding(c, "GetComplete") /\ req[c].status = 200) =>
            LET n == req[c].seriesName
                view == req[c].out.seasons
            IN  /\ \A i, j \in 1..Len(view) :
                        i < j => view[i].seasonNumber <= view[j].seasonNumber
                /\ Len(view) = CountDocuments(Season, [seriesName |-> n])
                /\ \A i \in 1..Len(view) :
                        LET eps == view[i].episodes
                            key == [seriesName |-> n, seasonNumber |-> view[i].seasonNumber]
                        IN  /\ view[i].seriesName = n
                            /\ \A k, l \in 1..Len(eps) :
                                    k < l => eps[k].episodeNumber <= eps[l].episodeNumber
                            /\ \A d \in Range(Episode) \cup Range(eps) :
                                    Count(eps, d) =
                                        IF Matches(d, key) THEN Count(Episode, d) ELSE 0

\* A view of two seasons, stored with season 2 first, each with an episode.
C5_Witness ==
    \E c \in Clients :
        /\ Responding(c, "GetComplete")
        /\ req[c].status = 200
        /\ Len(req[c].out.seasons) = 2
        /\ req[c].out.seasons[1].episodes # <<>>
        /\ req[c].out.seasons[2].episodes # <<>>
        /\ Find(Season, [seriesName |-> req[c].seriesName])[1].seasonNumber = 2

\* C6: the complete-series view of a name with no Series record answers 404
\* with the error message alone, whatever seasons and episodes carry the
\* name, and reads neither of them.
C6_CompleteMissingSeries ==
    \A c \in Clients :
        (/\ req[c].pc # "idle"
         /\ req[c].op = "GetComplete"
         /\ \A i \in 1..Len(req[c].pre.Series) :
                req[c].pre.Series[i].name # req[c].seriesName) =>
            /\ req[c].pc = "respond"
            /\ req[c].status = 404
            /\ req[c].out = "Series not found."

\* A 404 for a name that orphaned seasons and episodes carry.
C6_Witness ==
    \E c \in Clients :
        /\ Responding(c, "GetComplete")
        /\ req[c].status = 404
        /\ Find(Season, [seriesName |-> req[c].seriesName]) # <<>>
        /\ Find(Episode, [seriesName |-> req[c].seriesName]) # <<>>

\* C7: seriesStats gives the number of seasons of the name, the number of
\* episodes of the name, and one entry per distinct seasonNumber among those
\* episodes with the number of episodes of that season, in ascending season.
C7_SeriesStats ==
    \A c \in Clients :
        Responding(c, "GetStats") =>
            LET n == req[c].seriesName
                per == req[c].out.episodesPerSeason
            IN  /\ req[c].status = 200
                /\ req[c].out.totalSeasons = Len(Find(Season, [seriesName |-> n]))
                /\ req[c].out.totalEpisodes = Len(Find(Episode, [seriesName |-> n]))
                /\ \A i, j \in 1..Len(per) : i < j => per[i].season < per[j].season
                /\ {per[i].season : i \in 1..Len(per)} =
                        {d.seasonNumber : d \in Range(Find(Episode, [seriesName |-> n]))}
                /\ \A i \in 1..Len(per) :
                        per[i].episodes =
                            Len(Find(Episode, [seriesName |-> n,
                                               seasonNumber |-> per[i].season]))

\* Statistics of a series with a season and episodes in two seasons.
C7_Witness ==
    \E c \in Clients :
        /\ Responding(c, "GetStats")
        /\ req[c].out.totalSeasons >= 1
        /\ req[c].out.totalEpisodes = 2
        /\ Len(req[c].out.episodesPerSeason) = 2

\* What GET /api/series/:name answers right after the POST that c is
\* answering: equal to the posted body on the required fields.
ReadsBackPosted(c) ==
    LET found == FindOne(Series, [name |-> req[c].body.name])
    IN  /\ found # <<>>
        /\ found[1].name = req[c].body.name
        /\ found[1].thumbnail = req[c].body.thumbnail

\* C8 as stated: for every valid Series S, inserting S and then looking up a
\* single series by S.name gives a document equal to S on the required fields.
C8_Original ==
    \A c \in Clients :
        (Responding(c, "PostSeries") /\ req[c].status = 201) => ReadsBackPosted(c)

\* C8, amended: ... provided no Series of that name was stored before the insert.
C8_InsertThenFindOne ==
    \A c \in Clients :
        (/\ Responding(c, "PostSeries")
         /\ req[c].status = 201
         /\ \A i \in 1..Len(req[c].pre.Series) :
                req[c].pre.Series[i].name # req[c].body.name) =>
            ReadsBackPosted(c)

\* A series inserted after a series of another name.
C8_Witness ==
    \E c \in Clients :
        /\ Responding(c, "PostSeries")
        /\ req[c].status = 201
        /\ req[c].pre.Series # <<>>
        /\ \A i \in 1..Len(req[c].pre.Series) :
                req[c].pre.Series[i].name # req[c].body.name

\* The successful PUTs: the collection before and after, the filter and the schema.
Puts(c) ==
    IF req[c].op = "PutSeries"
    THEN [old |-> req[c].pre.Series, new |-> Series, schema |-> seriesSchema,
          filter |-> [name |-> req[c].seriesName]]
    ELSE IF req[c].op = "PutSeason"
    THEN [old |-> req[c].pre.Season, new |-> Season, schema |-> seasonSchema,
          filter |-> [seriesName |-> req[c].seriesName,
                      seasonNumber |-> req[c].seasonNumber]]
    ELSE [old |-> req[c].pre.Episode, new |-> Episode, schema |-> episodeSchema,
          filter |-> [seriesName |-> req[c].seriesName,
                      seasonNumber |-> req[c].seasonNumber,
                      episodeNumber |-> req[c].episodeNumber]]

PutOk(c) ==
    /\ req[c].pc = "respond"
    /\ req[c].op \in {"PutSeries", "PutSeason", "PutEpisode"}
    /\ req[c].status = 200

C10_AddedAtSet ==
    \A i \in 1..Len(Series) : "addedAt" \in DOMAIN Series[i]

\* The data c's create request hands to the model: the body under the path
\* parameters.
Posted(c) ==
    IF req[c].op = "PostSeason"
    THEN Spread(req[c].body, [seriesName |-> req[c].seriesName])
    ELSE Spread(req[c].body, [seriesName |-> req[c].seriesName,
                              seasonNumber |-> req[c].seasonNumber])

\* C12: creating a child never looks for its parent.  A season, an episode or
\* a bulk of episodes whose data is valid is stored and answered with 201
\* whatever Series and Season records exist, none included.
C12_ChildNeedsNoParent ==
    \A c \in Clients :
        /\ (Responding(c, "PostSeason") /\ ValidDoc(seasonSchema, Posted(c))) =>
                /\ req[c].status = 201
                /\ Season = Append(req[c].pre.Season, req[c].out)
        /\ (Responding(c, "PostEpisode") /\ ValidDoc(episodeSchema, Posted(c))) =>
                /\ req[c].status = 201
                /\ Episode = Append(req[c].pre.Episode, req[c].out)
        /\ ( /\ Responding(c, "PostEpisodesBulk")
             /\ "episodes" \in DOMAIN req[c].body
             /\ \A i \in 1..Len(req[c].body.episodes) :
                    ~Malformed(req[c].body.episodes[i]) ) =>
                /\ req[c].status = 201
                /\ Len(req[c].out) = Len(req[c].body.episodes)
                /\ Episode = req[c].pre.Episode \o req[c].out

\* A season is created under a series name that no Series record has.
C12_Witness ==
    \E c \in Clients :
        /\ Responding(c, "PostSeason")
        /\ req[c].status = 201
        /\ \A i \in 1..Len(Series) : Series[i].name # req[c].seriesName
        /\ \E i \in 1..Len(Season) : Season[i].seriesName = req[c].seriesName

\* An episode is created in a season that does not exist, of a series that
\* does not exist.
C12_WitnessEpisode ==
    \E c \in Clients :
        /\ req[c].pc = "respond"
        /\ req[c].op \in {"PostEpisode", "PostEpisodesBulk"}
        /\ req[c].status = 201
        /\ Series = <<>>
        /\ Season = <<>>
        /\ Episode # <<>>

\* The positions at which two collections of the same length differ.
ChangedIdx(old, new) == {i \in 1..Len(old) : old[i] # new[i]}

\* The records of coll that filter does not match, in order.
Others(coll, filter) == SelectSeq(coll, LAMBDA doc : ~Matches(doc, filter))

\* C17: a successful PUT on a Series or a Season changes at most the one
\* record it matched and no Season (for a Series) or Episode record, also
\* when it changes the key.  The children keep their key: listings and
\* deletes go by the key they are given, so a listing under another name
\* shows none of them and a delete under another key removes none of them.
C17_PutLeavesChildren ==
    \A c \in Clients :
        /\ (PutOk(c) /\ req[c].op = "PutSeries") =>
                /\ Season = req[c].pre.Season
                /\ Episode = req[c].pre.Episode
                /\ Len(Series) = Len(req[c].pre.Series)
                /\ Cardinality(ChangedIdx(req[c].pre.Series, Series)) <= 1
        /\ (PutOk(c) /\ req[c].op = "PutSeason") =>
                /\ Series = req[c].pre.Series
                /\ Episode = req[c].pre.Episode
                /\ Len(Season) = Len(req[c].pre.Season)
                /\ Cardinality(ChangedIdx(req[c].pre.Season, Season)) <= 1
        /\ (Responding(c, "GetSeasons") /\ req[c].status = 200) =>
                \A i \in 1..Len(req[c].out) : req[c].out[i].seriesName = req[c].seriesName
        /\ (Responding(c, "GetEpisodes") /\ req[c].status = 200) =>
                \A i \in 1..Len(req[c].out) : req[c].out[i].seriesName = req[c].seriesName
        /\ (Responding(c, "DeleteSeries") /\ req[c].status = 200) =>
                /\ Others(Season, [seriesName |-> req[c].seriesName]) =
                        Others(req[c].pre.Season, [seriesName |-> req[c].seriesName])
                /\ Others(Episode, [seriesName |-> req[c].seriesName]) =
                        Others(req[c].pre.Episode, [seriesName |-> req[c].seriesName])
        /\ (Responding(c, "DeleteSeason") /\ req[c].status = 200) =>
                LET key == [seriesName |-> req[c].seriesName,
                            seasonNumber |-> req[c].seasonNumber]
                IN  Others(Episode, key) = Others(req[c].pre.Episode, key)

\* A series with a season and an episode is renamed; both children are
\* stored as before, under the old name, which no Series has any more.
C17_Witness ==
    \E c \in Clients :
        /\ PutOk(c)
        /\ req[c].op = "PutSeries"
        /\ "name" \in DOMAIN req[c].body
        /\ req[c].body.name # req[c].seriesName
        /\ Find(Season, [seriesName |-> req[c].seriesName]) # <<>>
        /\ Find(Episode, [seriesName |-> req[c].seriesName]) # <<>>
        /\ Find(Series, [name |-> req[c].seriesName]) = <<>>

\* A season with an episode is moved to another number; the episode keeps the
\* old number, under which no Season is left.
C17_WitnessSeason ==
    \E c \in Clients :
        /\ PutOk(c)
        /\ req[c].op = "PutSeason"
        /\ "seasonNumber" \in DOMAIN req[c].body
        /\ req[c].body.seasonNumber # req[c].seasonNumber
        /\ Find(Episode, [seriesName |-> req[c].seriesName,
                          seasonNumber |-> req[c].seasonNumber]) # <<>>
        /\ Find(Season, [seriesName |-> req[c].seriesName,
                         seasonNumber |-> req[c].seasonNumber]) = <<>>

\* A series is deleted while seasons and episodes of a name that no Series
\* has are stored: they stay.
C17_WitnessOrphans ==
    \E c \in Clients, n \in Names :
        /\ Responding(c, "DeleteSeries")
        /\ req[c].status = 200
        /\ n # req[c].seriesName
        /\ Find(req[c].pre.Series, [name |-> n]) = <<>>
        /\ Find(Season, [seriesName |-> n]) # <<>>
        /\ Find(Episode, [seriesName |-> n]) # <<>>

\* How many records of coll carry the series name n in the field path.
Named(coll, path, n) == Cardinality({i \in 1..Len(coll) : coll[i][path] = n})

\* C18: nothing keeps Series names unique.  Every valid POST /api/series
\* appends its record, whatever names are stored; and a successful DELETE by
\* name removes one Series record of that name, no other Series record, and
\* every Season and Episode of that name.
C18_NamesNotUnique ==
    \A c \in Clients :
        /\ (Responding(c, "PostSeries") /\ ValidDoc(seriesSchema, req[c].body)) =>
                /\ req[c].status = 201
                /\ Series = Append(req[c].pre.Series, req[c].out)
                /\ Named(Series, "name", req[c].body.name) =
                        Named(req[c].pre.Series, "name", req[c].body.name) + 1
        /\ (Responding(c, "DeleteSeries") /\ req[c].status = 200) =>
                /\ Len(Series) = Len(req[c].pre.Series) - 1
                /\ Named(Series, "name", req[c].seriesName) =
                        Named(req[c].pre.Series, "name", req[c].seriesName) - 1
                /\ Named(Season, "seriesName", req[c].seriesName) = 0
                /\ Named(Episode, "seriesName", req[c].seriesName) = 0

\* Two Series shared a name and had a season and an episode; after one
\* successful delete a Series of that name is left, and no child.
C18_Witness ==
    \E c \in Clients :
        /\ Responding(c, "DeleteSeries")
        /\ req[c].status = 200
        /\ Named(req[c].pre.Series, "name", req[c].seriesName) = 2
        /\ Named(Series, "name", req[c].seriesName) = 1
        /\ Named(req[c].pre.Season, "seriesName", req[c].seriesName) > 0
        /\ Named(req[c].pre.Episode, "seriesName", req[c].seriesName) > 0
        /\ Named(Season, "seriesName", req[c].seriesName) = 0
        /\ Named(Episode, "seriesName", req[c].seriesName) = 0

\* A second Series is inserted under a name that is already stored.
C18_WitnessInsert ==
    \E c \in Clients :
        /\ Responding(c, "PostSeries")
        /\ req[c].status = 201
        /\ Named(req[c].pre.Series, "name", req[c].out.name) = 1
        /\ Named(Series, "name", req[c].out.name) = 2

\* C21: a created Season carries the series name of the request path, and a
\* created Episode, single or bulk, the series name and the parsed season
\* number of the request path, whatever seriesName or seasonNumber the body
\* or the bulk entries carry.
C21_PathOverridesBody ==
    \A c \in Clients :
        /\ (Responding(c, "PostSeason") /\ req[c].status = 201) =>
                /\ Len(Season) = Len(req[c].pre.Season) + 1
                /\ Season[Len(Season)].seriesName = req[c].seriesName
                /\ req[c].out.seriesName = req[c].seriesName
        /\ (Responding(c, "PostEpisode") /\ req[c].status = 201) =>
                /\ Len(Episode) = Len(req[c].pre.Episode) + 1
                /\ Episode[Len(Episode)].seriesName = req[c].params.seriesName
                /\ Episode[Len(Episode)].seasonNumber = ParseInt(req[c].params.seasonNumber)
                /\ req[c].out = Episode[Len(Episode)]
        /\ (Responding(c, "PostEpisodesBulk") /\ req[c].status = 201) =>
                /\ Len(Episode) = Len(req[c].pre.Episode) + Len(req[c].body.episodes)
                /\ \A i \in (Len(req[c].pre.Episode) + 1)..Len(Episode) :
                        /\ Episode[i].seriesName = req[c].params.seriesName
                        /\ Episode[i].seasonNumber = ParseInt(req[c].params.seasonNumber)

\* An episode is created under /a/seasons/1 from a body that says series b,
\* season 2: it is stored under a, season 1.
C21_Witness ==
    \E c \in Clients :
        /\ Responding(c, "PostEpisode")
        /\ req[c].status = 201
        /\ req[c].params.seasonNumber = "1"
        /\ "seriesName" \in DOMAIN req[c].body
        /\ req[c].body.seriesName # req[c].params.seriesName
        /\ "seasonNumber" \in DOMAIN req[c].body
        /\ req[c].body.seasonNumber = 2
        /\ Episode[Len(Episode)].seriesName = req[c].params.seriesName
        /\ Episode[Len(Episode)].seasonNumber = 1

\* An episode created under /seasons/02 is stored with season number 2.
C21_WitnessParsed ==
    \E c \in Clients :
        /\ Responding(c, "PostEpisode")
        /\ req[c].status = 201
        /\ req[c].params.seasonNumber = "02"
        /\ Episode[Len(Episode)].seasonNumber = 2

\* The same for a season, and for a bulk entry.
C21_WitnessSeason ==
    \E c \in Clients :
        /\ Responding(c, "PostSeason")
        /\ req[c].status = 201
        /\ "seriesName" \in DOMAIN req[c].body
        /\ req[c].body.seriesName # req[c].seriesName
        /\ Season[Len(Season)].seriesName = req[c].seriesName

C21_WitnessBulk ==
    \E c \in Clients :
        /\ Responding(c, "PostEpisodesBulk")
        /\ req[c].status = 201
        /\ req[c].body.episodes # <<>>
        /\ "seriesName" \in DOMAIN req[c].body.episodes[1]
        /\ req[c].body.episodes[1].seriesName # req[c].params.seriesName
        /\ req[c].body.episodes[1].seasonNumber # ParseInt(req[c].params.seasonNumber)
        /\ Episode[Len(Episode)].seriesName = req[c].params.seriesName

(***************************************************************************)
(* The service with two clients' requests interleaved at the awaits, on a  *)
(* store that earlier requests have filled: cascade deletes and the list   *)
(* reads.                                                                  *)
(***************************************************************************)
SeriesDoc(n, t) == NewDoc(seriesSchema, [name |-> n, thumbnail |-> t])

SeasonDoc(n, k) == NewDoc(seasonSchema, [seriesName |-> n, seasonNumber |-> k, title |-> "S"])

EpisodeDoc(n, k, e) ==
    NewDoc(episodeSchema, [seriesName |-> n, seasonNumber |-> k, episodeNumber |-> e,
                           title |-> "E", streamingUrl |-> "u"])

FilledSeries ==
    {<<SeriesDoc("a", "t1")>>,
     <<SeriesDoc("a", "t1"), SeriesDoc("a", "t2")>>,
     <<SeriesDoc("a", "t1"), SeriesDoc("b", "t1")>>}

FilledSeasons ==
    {<<SeasonDoc("a", 1)>>,
     <<SeasonDoc("a", 1), SeasonDoc("a", 2)>>,
     <<SeasonDoc("a", 2), SeasonDoc("b", 1)>>}

FilledEpisodes ==
    {<<EpisodeDoc("a", 1, 1)>>,
     <<EpisodeDoc("a", 1, 2), EpisodeDoc("a", 1, 1)>>,
     <<EpisodeDoc("a", 2, 1), EpisodeDoc("a", 1, 1)>>,
     <<EpisodeDoc("a", 1, 1), EpisodeDoc("b", 1, 1)>>}

InitFilled ==
    /\ Series \in FilledSeries
    /\ Season \in FilledSeasons
    /\ Episode \in FilledEpisodes
    /\ req = [c \in Clients |-> Idle]

NextConc ==
    \E c \in Clients :
        \/ \E n \in Names : DeleteSeries(c, n)
        \/ \E n \in Names, k \in SeasonNums : DeleteSeason(c, n, k)
        \/ \E n \in Names : GetSeasons(c, n)
        \/ \E n \in Names : GetEpisodes(c, n)
        \/ DeleteSeriesSeasons(c)
        \/ DeleteSeriesEpisodes(c)
        \/ DeleteSeasonEpisodes(c)
        \/ Respond(c)

SpecConc == InitFilled /\ [][NextConc]_vars

\* The step in which c's cascade handler gets to the await named pc.
CascadeGets(c, op, pc) ==
    /\ req[c].pc # pc
    /\ req'[c].pc = pc
    /\ req'[c].op = op

\* C11: a cascade delete is not atomic.  The step that deletes the parent
\* record deletes no child, and the Season.deleteMany of a series delete
\* deletes no episode: after each of them the store, which any other request
\* may read, holds the children of a parent that is gone.
C11_CascadeNotAtomic ==
    [][\A c \in Clients :
        /\ CascadeGets(c, "DeleteSeason", "Episode.deleteMany") =>
                /\ Len(Season') = Len(Season) - 1
                /\ Episode' = Episode
        /\ CascadeGets(c, "DeleteSeries", "Season.deleteMany") =>
                /\ Len(Series') = Len(Series) - 1
                /\ Season' = Season
                /\ Episode' = Episode
        /\ CascadeGets(c, "DeleteSeries", "Episode.deleteMany") =>
                Episode' = Episode]_vars

\* A season delete has removed the Season and not yet the Episodes, and the
\* other client's listing, issued in between, shows an episode of that season.
C11_Witness ==
    \E c, d \in Clients :
        /\ req[c].pc = "Episode.deleteMany"
        /\ req[c].op = "DeleteSeason"
        /\ Find(Season, [seriesName |-> req[c].seriesName,
                         seasonNumber |-> req[c].seasonNumber]) = <<>>
        /\ Responding(d, "GetEpisodes")
        /\ req[d].seriesName = req[c].seriesName
        /\ req[d].pre.Season = Season
        /\ \E i \in 1..Len(req[d].out) :
                req[d].out[i].seasonNumber = req[c].seasonNumber

\* s is the beginning of t.
IsPrefix(s, t) == Len(s) <= Len(t) /\ SubSeq(t, 1, Len(s)) = s

SeriesCascade == <<"Series.findOneAndDelete", "Season.deleteMany", "Episode.deleteMany">>

SeasonCascade == <<"Season.findOneAndDelete", "Episode.deleteMany">>

\* C13: a cascade delete issues the parent delete first and a child delete
\* only once the parent delete has returned a record; a series delete issues
\* Episode.deleteMany only once Season.deleteMany has removed the seasons; and
\* the success response comes after every child deletion: no child of the
\* name is left when it is sent.
C13_CascadeOrder ==
    \A c \in Clients :
        /\ (req[c].pc # "idle" /\ req[c].op = "DeleteSeries") =>
                /\ req[c].calls # <<>>
                /\ IsPrefix(req[c].calls, SeriesCascade)
                /\ Len(req[c].calls) > 1 =>
                        /\ req[c].deleted # <<>>
                        /\ req[c].deleted[1].name = req[c].seriesName
                        /\ Len(Series) < Len(req[c].pre.Series)
                /\ req[c].pc = "Episode.deleteMany" =>
                        /\ Len(req[c].calls) = 2
                        /\ Find(Season, [seriesName |-> req[c].seriesName]) = <<>>
                /\ (req[c].pc = "respond" /\ req[c].status = 200) =>
                        /\ req[c].calls = SeriesCascade
                        /\ Find(Season, [seriesName |-> req[c].seriesName]) = <<>>
                        /\ Find(Episode, [seriesName |-> req[c].seriesName]) = <<>>
        /\ (req[c].pc # "idle" /\ req[c].op = "DeleteSeason") =>
                /\ req[c].calls # <<>>
                /\ IsPrefix(req[c].calls, SeasonCascade)
                /\ (req[c].pc = "respond" /\ req[c].status = 200) =>
                        /\ req[c].calls = SeasonCascade
                        /\ req[c].deleted # <<>>
                        /\ req[c].deleted[1].seriesName = req[c].seriesName
                        /\ req[c].deleted[1].seasonNumber = req[c].seasonNumber
                        /\ Len(Season) < Len(req[c].pre.Season)
                        /\ Find(Episode, [seriesName |-> req[c].seriesName,
                                          seasonNumber |-> req[c].seasonNumber]) = <<>>

\* A series delete that found seasons and episodes to remove is about to
\* issue its Episode.deleteMany, while the other client has a request under
\* way.
C13_Witness ==
    \E c, d \in Clients :
        /\ req[c].pc = "Episode.deleteMany"
        /\ req[c].op = "DeleteSeries"
        /\ Find(req[c].pre.Season, [seriesName |-> req[c].seriesName]) # <<>>
        /\ Find(Episode, [seriesName |-> req[c].seriesName]) # <<>>
        /\ d # c
        /\ req[d].pc # "idle"

(***************************************************************************)
(* Store errors.  An awaited store call may reject instead of returning;   *)
(* the handler's catch block then answers 500.  The call that rejected had *)
(* either no effect on the store or its whole effect (the error came with  *)
(* the acknowledgement).  threw is the call that rejected.                 *)
(***************************************************************************)
Throws(r, call, message) == Reply(With(Issued(r, call), "threw", call), 500, message)

\* DELETE /api/series/:seriesName: findOneAndDelete rejects.
DeleteSeriesThrows(c, seriesName, applied) ==
    /\ req[c].pc = "idle"
    /\ LET i == FirstIdx(Series, [name |-> seriesName])
       IN  Series' = IF applied /\ i # 0 THEN RemoveAt(Series, i) ELSE Series
    /\ Go(c, Throws(With(Call("DeleteSeries", [seriesName |-> seriesName]), "deleted", <<>>),
                    "Series.findOneAndDelete", "Failed to delete series."))
    /\ UNCHANGED <<Season, Episode>>

MutDeleteSeriesSeasonsThrowsSwallowed(c, applied) ==
    /\ req[c].pc = "Season.deleteMany"
    /\ req[c].op = "DeleteSeries"
    /\ Season' = IF applied THEN DeleteMany(Season, [seriesName |-> req[c].seriesName])
                 ELSE Season
    /\ Go(c, Await(With(Issued(req[c], "Season.deleteMany"), "threw", "Season.deleteMany"),
                   "Episode.deleteMany"))
    /\ UNCHANGED <<Series, Episode>>

\* ... Season.deleteMany rejects.
DeleteSeriesSeasonsThrows(c, applied) ==
    /\ req[c].pc = "Season.deleteMany"
    /\ req[c].op = "DeleteSeries"
    /\ Season' = IF applied THEN DeleteMany(Season, [seriesName |-> req[c].seriesName])
                 ELSE Season
    /\ Go(c, Throws(req[c], "Season.deleteMany", "Failed to delete series."))
    /\ UNCHANGED <<Series, Episode>>

\* ... Episode.deleteMany rejects.
DeleteSeriesEpisodesThrows(c, applied) ==
    /\ req[c].pc = "Episode.deleteMany"
    /\ req[c].op = "DeleteSeries"
    /\ Episode' = IF applied THEN DeleteMany(Episode, [seriesName |-> req[c].seriesName])
                  ELSE Episode
    /\ Go(c, Throws(req[c], "Episode.deleteMany", "Failed to delete series."))
    /\ UNCHANGED <<Series, Season>>

\* DELETE /api/series/:seriesName/seasons/:seasonNumber: findOneAndDelete
\* rejects.
DeleteSeasonThrows(c, seriesName, seasonNumber, applied) ==
    /\ req[c].pc = "idle"
    /\ LET i == FirstIdx(Season, [seriesName |-> seriesName, seasonNumber |-> seasonNumber])
       IN  Season' = IF applied /\ i # 0 THEN RemoveAt(Season, i) ELSE Season
    /\ Go(c, Throws(With(Call("DeleteSeason", [seriesName |-> seriesName,
                                               seasonNumber |-> seasonNumber]),
                         "deleted", <<>>),
                    "Season.findOneAndDelete", "Failed to delete season."))
    /\ UNCHANGED <<Series, Episode>>

\* ... Episode.deleteMany rejects.
DeleteSeasonEpisodesThrows(c, applied) ==
    /\ req[c].pc = "Episode.deleteMany"
    /\ req[c].op = "DeleteSeason"
    /\ Episode' = IF applied
                  THEN DeleteMany(Episode, [seriesName |-> req[c].seriesName,
                                            seasonNumber |-> req[c].seasonNumber])
                  ELSE Episode
    /\ Go(c, Throws(req[c], "Episode.deleteMany", "Failed to delete season."))
    /\ UNCHANGED <<Series, Season>>

\* Two clients' cascade deletes on a store whose calls may reject.
NextFail ==
    \E c \in Clients :
        \/ \E n \in Names : DeleteSeries(c, n)
        \/ \E n \in Names, k \in SeasonNums : DeleteSeason(c, n, k)
        \/ DeleteSeriesSeasons(c)
        \/ DeleteSeriesEpisodes(c)
        \/ DeleteSeasonEpisodes(c)
        \/ \E n \in Names, applied \in BOOLEAN : DeleteSeriesThrows(c, n, applied)
        \/ \E n \in Names, k \in SeasonNums, applied \in BOOLEAN :
                DeleteSeasonThrows(c, n, k, applied)
        \/ \E applied \in BOOLEAN : DeleteSeriesSeasonsThrows(c, applied)
        \/ \E applied \in BOOLEAN : DeleteSeriesEpisodesThrows(c, applied)
        \/ \E applied \in BOOLEAN : DeleteSeasonEpisodesThrows(c, applied)
        \/ Respond(c)

SpecFail == InitFilled /\ [][NextFail]_vars

\* c's cascade deleted its parent record and one of its child deletes
\* rejected.
ChildDeleteThrew(c) ==
    /\ req[c].pc # "idle"
    /\ req[c].op \in {"DeleteSeries", "DeleteSeason"}
    /\ req[c].deleted # <<>>
    /\ "threw" \in DOMAIN req[c]

\* C14: when the parent delete of a cascade succeeded and a child delete
\* rejects, the request answers 500 with the failure message, the parent
\* record stays deleted, and the call that rejected is the last call the
\* request makes: after a rejected Season.deleteMany no Episode.deleteMany.
C14_ChildFailure ==
    \A c \in Clients :
        ChildDeleteThrew(c) =>
            /\ req[c].pc = "respond"
            /\ req[c].status = 500
            /\ req[c].out = IF req[c].op = "DeleteSeries" THEN "Failed to delete series."
                            ELSE "Failed to delete season."
            /\ req[c].calls[Len(req[c].calls)] = req[c].threw
            /\ IsPrefix(req[c].calls,
                        IF req[c].op = "DeleteSeries" THEN SeriesCascade ELSE SeasonCascade)
            /\ IF req[c].op = "DeleteSeries"
               THEN Len(Series) < Len(req[c].pre.Series)
               ELSE Len(Season) < Len(req[c].pre.Season)

\* A series delete whose Season.deleteMany rejected without effect answers
\* 500: its Series record is gone, the seasons and episodes of the name are
\* all still stored.
C14_Witness ==
    \E c \in Clients :
        /\ ChildDeleteThrew(c)
        /\ req[c].op = "DeleteSeries"
        /\ req[c].threw = "Season.deleteMany"
        /\ req[c].status = 500
        /\ Find(Series, [name |-> req[c].seriesName]) = <<>>
        /\ Find(Season, [seriesName |-> req[c].seriesName]) # <<>>
        /\ Find(Season, [seriesName |-> req[c].seriesName]) =
                Find(req[c].pre.Season, [seriesName |-> req[c].seriesName])
        /\ Find(Episode, [seriesName |-> req[c].seriesName]) # <<>>

(***************************************************************************)
(* GET /api/complete: one task per series found, all under Promise.all.    *)
(* The tasks' store reads complete in any order, interleaved with another  *)
(* client's writes.                                                        *)
(***************************************************************************)
Searches == {"", "a", "B", "."}

\* String.prototype.toLowerCase on the names and searches of the model.
Lower(str) == IF str = "A" THEN "a" ELSE IF str = "B" THEN "b" ELSE str

\* new RegExp(search, 'i').test(name), for the one-character searches above.
RegExpTest(search, name) == search = "." \/ Lower(search) = Lower(name)

\* Series.find(seriesQuery): every series when search is empty (falsy).
FindSeries(coll, search) ==
    SelectSeq(coll, LAMBDA doc : search = "" \/ RegExpTest(search, doc.name))

\* The async callback of allSeries.map, started for one series: it runs up to
\* its first await, Season.find.
Task(series) == [pc |-> "Season.find", series |-> series, seasons |-> <<>>]

\* What Promise.all resolves to: the tasks' results by position in the input.
MutSettledInCompletionOrder(r) ==
    [k \in 1..Len(r.settled) |-> r.tasks[r.settled[k]].entry]

Settled(r) == [i \in 1..Len(r.tasks) |-> r.tasks[i].entry]

\* GET /api/complete, up to its first await, Series.find, and the start of
\* the tasks.  settled is the order in which the tasks have finished.
GetCompleteAll(c, search) ==
    /\ req[c].pc = "idle"
    /\ LET allSeries == FindSeries(Series, search)
           r == With(With(With(Call("GetCompleteAll", [search |-> search]),
                               "allSeries", allSeries),
                          "tasks", [i \in 1..Len(allSeries) |-> Task(allSeries[i])]),
                     "settled", <<>>)
       IN  Go(c, Await(r, "Promise.all"))
    /\ UNCHANGED <<Series, Season, Episode>>

\* Task i's first await returns: Season.find(...).sort(...).
GetCompleteAllSeasons(c, i) ==
    /\ req[c].pc = "Promise.all"
    /\ i \in 1..Len(req[c].tasks)
    /\ req[c].tasks[i].pc = "Season.find"
    /\ LET t == req[c].tasks[i]
           seasons == Sort(Find(Season, [seriesName |-> t.series.name]), BySeasonNumber)
       IN  Go(c, [req[c] EXCEPT !.tasks[i] =
                    [pc |-> "Episode.find", series |-> t.series, seasons |-> seasons]])
    /\ UNCHANGED <<Series, Season, Episode>>

\* Task i's second await returns, Episode.find(...).sort(...); the task groups
\* the episodes and finishes with its entry.
GetCompleteAllEpisodes(c, i) ==
    /\ req[c].pc = "Promise.all"
    /\ i \in 1..Len(req[c].tasks)
    /\ req[c].tasks[i].pc = "Episode.find"
    /\ LET t == req[c].tasks[i]
           episodes == Sort(Find(Episode, [seriesName |-> t.series.name]), BySeasonEpisode)
           entry == With(t.series, "seasons", SeasonsWithEpisodes(t.seasons, episodes))
       IN  Go(c, [req[c] EXCEPT !.tasks[i] = [pc |-> "done", entry |-> entry],
                                !.settled = Append(@, i)])
    /\ UNCHANGED <<Series, Season, Episode>>

\* Every task has finished: Promise.all resolves and the handler responds.
GetCompleteAllJoin(c) ==
    /\ req[c].pc = "Promise.all"
    /\ \A i \in 1..Len(req[c].tasks) : req[c].tasks[i].pc = "done"
    /\ Go(c, Reply(req[c], 200, Settled(req[c])))
    /\ UNCHANGED <<Series, Season, Episode>>

\* Client c1 reads the catalog while client c2 writes.
NextCatalog ==
    \/ \E search \in Searches : GetCompleteAll("c1", search)
    \/ \E i \in 1..MaxSeries : GetCompleteAllSeasons("c1", i)
    \/ \E i \in 1..MaxSeries : GetCompleteAllEpisodes("c1", i)
    \/ GetCompleteAllJoin("c1")
    \/ Respond("c1")
    \/ \E n \in Names : PostEpisode("c2", n, "1", Ep(2))
    \/ \E n \in Names : DeleteSeries("c2", n)
    \/ DeleteSeriesSeasons("c2")
    \/ DeleteSeriesEpisodes("c2")
    \/ Respond("c2")

SpecCatalog == InitFilled /\ [][NextCatalog]_vars

\* C15: the catalog response has one entry per series the Series query
\* returned, in the query's order, whatever the order in which the per-series
\* reads completed; the seasons of an entry, and their episodes, carry the
\* entry's series name.
C15_CatalogInQueryOrder ==
    \A c \in Clients :
        (Responding(c, "GetCompleteAll") /\ req[c].status = 200) =>
            LET found == req[c].allSeries
                out == req[c].out
            IN  /\ Len(found) = Cardinality({i \in 1..Len(req[c].pre.Series) :
                                    \/ req[c].search = ""
                                    \/ RegExpTest(req[c].search, req[c].pre.Series[i].name)})
                /\ Len(out) = Len(found)
                /\ \A i \in 1..Len(out) :
                        /\ out[i].name = found[i].name
                        /\ out[i].thumbnail = found[i].thumbnail
                        /\ \A j \in 1..Len(out[i].seasons) :
                                /\ out[i].seasons[j].seriesName = out[i].name
                                /\ \A k \in 1..Len(out[i].seasons[j].episodes) :
                                        out[i].seasons[j].episodes[k].seriesName = out[i].name

\* The reads for the second series finished before those for the first, the
\* two entries differ, and the store changed while the request ran.
C15_Witness ==
    \E c \in Clients :
        /\ Responding(c, "GetCompleteAll")
        /\ req[c].settled = <<2, 1>>
        /\ req[c].out[1] # req[c].out[2]
        /\ req[c].out[1].seasons # <<>>
        /\ req[c].pre # Store

(***************************************************************************)
(* Progress.  A store call that was issued eventually returns or rejects,  *)
(* and a response the handler hands to Express is eventually sent.         *)
(***************************************************************************)
\* GET /api/series/:seriesName/complete: Series.findOne rejects.
GetCompleteThrows(c, seriesName) ==
    /\ req[c].pc = "idle"
    /\ Go(c, Throws(Call("GetComplete", [seriesName |-> seriesName]), "Series.findOne",
                    "Failed to fetch complete series data."))
    /\ UNCHANGED <<Series, Season, Episode>>

MutGetCompleteSeasonsThrowsUncaught(c) ==
    /\ req[c].pc = "Season.find"
    /\ req[c].op = "GetComplete"
    /\ Go(c, Await(With(Issued(req[c], "Season.find"), "threw", "Season.find"), "rejected"))
    /\ UNCHANGED <<Series, Season, Episode>>

\* ... Season.find rejects.
GetCompleteSeasonsThrows(c) ==
    /\ req[c].pc = "Season.find"
    /\ req[c].op = "GetComplete"
    /\ Go(c, Throws(req[c], "Season.find", "Failed to fetch complete series data."))
    /\ UNCHANGED <<Series, Season, Episode>>

\* ... Episode.find rejects.
GetCompleteEpisodesThrows(c) ==
    /\ req[c].pc = "Episode.find"
    /\ req[c].op = "GetComplete"
    /\ Go(c, Throws(req[c], "Episode.find", "Failed to fetch complete series data."))
    /\ UNCHANGED <<Series, Season, Episode>>

\* A request of c arrives; its first store call returns or rejects.
BeginLive(c) ==
    \/ \E n \in Names : DeleteSeries(c, n)
    \/ \E n \in Names : DeleteSeriesThrows(c, n, FALSE)
    \/ \E n \in Names : GetComplete(c, n)
    \/ \E n \in Names : GetCompleteThrows(c, n)

\* The store call c's handler awaits returns or rejects, or c's response is
\* sent.
StoreAnswers(c) ==
    \/ DeleteSeriesSeasons(c)
    \/ \E applied \in BOOLEAN : DeleteSeriesSeasonsThrows(c, applied)
    \/ DeleteSeriesEpisodes(c)
    \/ \E applied \in BOOLEAN : DeleteSeriesEpisodesThrows(c, applied)
    \/ GetCompleteSeasons(c)
    \/ GetCompleteSeasonsThrows(c)
    \/ GetCompleteEpisodes(c)
    \/ GetCompleteEpisodesThrows(c)
    \/ Respond(c)

NextLive == \E c \in Clients : BeginLive(c) \/ StoreAnswers(c)

SpecLive == InitFilled /\ [][NextLive]_vars /\ \A c \in Clients : WF_vars(StoreAnswers(c))

\* C16: every request that started gets its response, and exactly one: a
\* handler that has sent a response has sent one and does nothing more; and
\* after a failure response the client's slot is free again for a later
\* request.
C16_ExactlyOneResponse ==
    /\ \A c \in Clients : (req[c].pc # "idle") ~> (req[c].pc = "respond")
    /\ [](\A c \in Clients :
            "sent" \in DOMAIN req[c] => (req[c].sent = 1 /\ req[c].pc = "respond"))
    /\ [][\A c \in Clients :
            (req[c].pc # "idle" /\ req'[c].pc = "idle") =>
                (req[c].pc = "respond" /\ req[c].sent = 1)]_vars
    /\ \A c \in Clients :
            (req[c].pc = "respond" /\ req[c].status >= 400) ~> (req[c].pc = "idle")

\* A series delete failed half way and has answered 500, once, while the
\* other client's request, which began after the Series record was removed, is
\* being handled.
C16_Witness ==
    \E c, d \in Clients :
        /\ Responding(c, "DeleteSeries")
        /\ req[c].status = 500
        /\ req[c].sent = 1
        /\ req[c].threw = "Episode.deleteMany"
        /\ req[d].pc = "Episode.find"
        /\ req[d].pre.Series = Series
        /\ req[d].pre.Season = Season

\* c and d are both handling a DELETE of the same series name, of which one
\* record was stored when the first of them began.
RacingDeletes(c, d) ==
    /\ c # d
    /\ req[c].pc # "idle" /\ req[c].op = "DeleteSeries"
    /\ req[d].pc # "idle" /\ req[d].op = "DeleteSeries"
    /\ req[c].seriesName = req[d].seriesName
    /\ Named(req[c].pre.Series, "name", req[c].seriesName) = 1
    /\ Named(req[d].pre.Series, "name", req[d].seriesName) <= 1

\* C19: of two concurrent DELETEs of a series name that one record carries,
\* one gets the record and answers with success after the whole cascade; the
\* other gets none, answers 404 and has issued nothing but its
\* findOneAndDelete.
C19_OneDeleteWins ==
    \A c, d \in Clients :
        RacingDeletes(c, d) =>
            /\ req[c].deleted # <<>>
            /\ req[c].pc = "respond" => (req[c].status = 200 /\ req[c].calls = SeriesCascade)
            /\ req[d].deleted = <<>>
            /\ req[d].pc = "respond"
            /\ req[d].status = 404
            /\ req[d].calls = <<"Series.findOneAndDelete">>

\* Both responses are ready, 200 and 404, and the winner's cascade removed
\* seasons and episodes.
C19_Witness ==
    \E c, d \in Clients :
        /\ RacingDeletes(c, d)
        /\ req[c].pc = "respond"
        /\ req[c].status = 200
        /\ req[d].status = 404
        /\ Find(req[c].pre.Season, [seriesName |-> req[c].seriesName]) # <<>>
        /\ Find(req[c].pre.Episode, [seriesName |-> req[c].seriesName]) # <<>>
        /\ Find(req[d].pre.Season, [seriesName |-> req[c].seriesName]) # <<>>

(***************************************************************************)
(* Statistics of one client against episode writes of another.             *)
(***************************************************************************)
NextStats ==
    \/ \E n \in Names : GetStats("c1", n)
    \/ GetStatsEpisodeCount("c1")
    \/ GetStatsAggregate("c1")
    \/ Respond("c1")
    \/ \E k \in SeasonParams : PostEpisode("c2", "a", k, Ep(2))
    \/ \E k \in SeasonNums, e \in EpisodeNums : DeleteEpisode("c2", "a", k, e)
    \/ Respond("c2")

SpecStats == InitFilled /\ [][NextStats]_vars

\* The sum of the episodes counts of an episodesPerSeason list.
SumEpisodes(per) ==
    Cardinality(UNION {{<<i, j>> : j \in 1..per[i].episodes} : i \in 1..Len(per)})

\* C20 as stated: every statistics response has totalEpisodes equal to the
\* sum of its episodesPerSeason counts, whatever is written meanwhile.
C20_Original ==
    \A c \in Clients :
        Responding(c, "GetStats") =>
            req[c].out.totalEpisodes = SumEpisodes(req[c].out.episodesPerSeason)

\* C20: the statistics handler answers with totalEpisodes equal to the sum of
\* its episodesPerSeason counts when the series has the same episodes at the
\* aggregation as it had at the count.
C20_StatsAgreeWithoutWrites ==
    [][\A c \in Clients :
        ( /\ req[c].pc = "Episode.aggregate"
          /\ req'[c].pc = "respond"
          /\ Find(Episode, [seriesName |-> req[c].seriesName]) =
                Find(req[c].atCount, [seriesName |-> req[c].seriesName]) ) =>
            req'[c].out.totalEpisodes = SumEpisodes(req'[c].out.episodesPerSeason)]_vars

\* Statistics of a series with episodes in two seasons, answered with total
\* and sum equal, of a request during which the other client wrote episodes
\* before the count.
C20_Witness ==
    \E c \in Clients :
        /\ Responding(c, "GetStats")
        /\ Len(req[c].out.episodesPerSeason) = 2
        /\ req[c].out.totalEpisodes = SumEpisodes(req[c].out.episodesPerSeason)
        /\ req[c].pre.Episode # req[c].atCount
        /\ req[c].atCount = Episode

====
